---- MODULE Spec2Model ----
(***************************************************************************)
(* MathAI (src/main.py): a question is turned into a narrated video by a   *)
(* fixed pipeline  generate -> render -> narrate -> mux -> cleanup.        *)
(*                                                                         *)
(* A process p is one run of main().  The external services (language      *)
(* model, animation engine, speech synthesis, ffmpeg) are the environment: *)
(* each call is one atomic step whose outcome is chosen nondeterministic-  *)
(* ally among the outcomes the call can have.  The working directory is    *)
(* shared by all runs; a file's content is the tag of the run that wrote   *)
(* it ("old" for a file that was there before any run started).            *)
(***************************************************************************)
EXTENDS Integers, Sequences, FiniteSets, TLC

VARIABLES
    pc,         \* pc[p]: where run p stands in main / create_video
    env,        \* env[p]: the two credential environment variables
    fs,         \* the working directory: file name -> content tag
    fs0,        \* the working directory before any run started (history)
    asked,      \* asked[p]: main has read the question (line 140)
    reply,      \* reply[p]: kind of response the language model gave
    steps,      \* steps[p]: local `steps` of create_video
    plays,      \* plays[p]: what MathScene.construct has shown, in order
    renderOut,  \* renderOut[p]: outcome of scene.render()
    synth,      \* synth[p]: the texts handed to speech synthesis, in order
    muxOut,     \* muxOut[p]: outcome of the ffmpeg subprocess
    muxIn,      \* muxIn[p]: contents ffmpeg found at its two input paths
    log,        \* log[p]: the steps of create_video run p has executed
    raisedAt,   \* raisedAt[p]: the step whose exception was caught, or "none"
    result      \* result[p]: what create_video returned

vars ==
    <<pc, env, fs, fs0, asked, reply, steps, plays, renderOut, synth,
      muxOut, muxIn, log, raisedAt, result>>

-----------------------------------------------------------------------------
(* Bounds of the model *)

MaxSteps == 6

ConcMaxSteps == 1

-----------------------------------------------------------------------------
(* Program constants *)

StartY == 3

ArrowFloor == -3

PauseLen == 2

ScenePath ==
    "math_scene.mp4"

AudioPath ==
    "narration.mp3"

OutputPath ==
    "final_explanation.mp4"

NoneValue ==
    "None"

Files ==
    {ScenePath, AudioPath, OutputPath}

-----------------------------------------------------------------------------
(* Data *)

\* os.getenv gives None for an unset variable, else its (possibly empty) text.
KeyValues ==
    {NoneValue, "", "sk-key"}

Environments ==
    [OPENAI_API_KEY : KeyValues, ELEVENLABS_API_KEY : KeyValues]

\* A parsed step is a dict; the response is not validated, so a key may be
\* missing.
StepWith(n) ==
    [equation |-> "x+1=2", explanation |-> "subtract 1", narration |-> n]

StepNoNarration ==
    [equation |-> "x+1=2", explanation |-> "subtract 1"]

StepPool ==
    {StepWith("a"), StepWith("b"), StepNoNarration}

SeqsUpTo(S, n) ==
    UNION {[1..k -> S] : k \in 0..n}

\* What the language-model call can give: an API error, a text that is not
\* JSON, or a JSON array of steps.
Replies(n) ==
    {[kind |-> "apierror", value |-> <<>>], [kind |-> "text", value |-> <<>>]}
        \cup {[kind |-> "json", value |-> s] : s \in SeqsUpTo(StepPool, n)}

Writer(p) ==
    IF p = 1 THEN "run1" ELSE "run2"

Absent ==
    "absent"

-----------------------------------------------------------------------------
(* MathTutor.__init__ *)

\* `not v` of Python: None and the empty text are both falsy.
Falsy(v) ==
    v = NoneValue \/ v = ""

\* Variant of KeysMissing: `and` in place of `or`.
KeysMissingBoth(e) ==
    Falsy(e.OPENAI_API_KEY) /\ Falsy(e.ELEVENLABS_API_KEY)

\* The condition of line 60, under which the constructor raises ValueError.
KeysMissing(e) ==
    Falsy(e.OPENAI_API_KEY) \/ Falsy(e.ELEVENLABS_API_KEY)

-----------------------------------------------------------------------------
(* MathTutor.generate_explanation *)

\* Variant of GenerateRaises: a lenient parser that takes any text.
GenerateRaisesLenient(kind) ==
    kind = "apierror"

\* The call raises when the API call fails or json.loads rejects the text.
GenerateRaises(kind) ==
    kind # "json"

-----------------------------------------------------------------------------
(* MathScene.construct *)

\* Line 40, evaluated after current_y has been decremented.
ArrowDue(current_y) ==
    current_y > ArrowFloor

\* The loop of lines 22-50 from step i on.  failAt = i means the engine (or a
\* missing key) raises while step i's equation is built, before anything of
\* step i is shown; failAt = 0 means nothing raises.  The animation is the
\* sequence of <<kind, step or duration>> shown so far.
RECURSIVE ConstructLoop(_, _, _, _, _)
ConstructLoop(stepList, i, current_y, shown, failAt) ==
    IF i > Len(stepList) \/ i = failAt
    THEN shown
    ELSE LET written == shown \o << <<"equation", i>>, <<"explanation", i>> >>
             y == current_y - 1
             arrowed == IF ArrowDue(y)
                        THEN Append(written, <<"arrow", i>>)
                        ELSE written
         IN  ConstructLoop(stepList, i + 1, y, Append(arrowed, <<"wait", PauseLen>>),
                           failAt)

\* construct as a whole: the loop, then the final pause of line 53 when the
\* loop ran to its end.
Construct(stepList, failAt) ==
    LET shown == ConstructLoop(stepList, 1, StartY, <<>>, failAt)
    IN  IF failAt = 0 THEN Append(shown, <<"wait", PauseLen>>) ELSE shown

-----------------------------------------------------------------------------
(* MathTutor.create_narration *)

\* step['narration'] raises KeyError on a step without that key.
NarrationKeyError(stepList) ==
    \E i \in 1..Len(stepList) : "narration" \notin DOMAIN stepList[i]

\* Variant of JoinNarration: "".join(...), no separator.
JoinNarrationNoSeparator(stepList) ==
    [i \in 1..Len(stepList) |-> stepList[i].narration]

\* " ".join(...) of line 87.  A text is the sequence of its pieces, the
\* separator being the piece " ".
RECURSIVE JoinNarration(_)
JoinNarration(stepList) ==
    IF stepList = <<>>
    THEN <<>>
    ELSE IF Len(stepList) = 1
         THEN <<stepList[1].narration>>
         ELSE <<stepList[1].narration, " ">> \o JoinNarration(Tail(stepList))

-----------------------------------------------------------------------------
(* The external tools and the file system *)

\* Variant of MuxRaises: subprocess.run(..., check=True).
MuxRaisesChecked(outcome) ==
    outcome # "ok"

\* subprocess.run is called without check=True: it raises only when the
\* executable cannot be started, never on a nonzero exit status.
MuxRaises(outcome) ==
    outcome = "notfound"

\* What ffmpeg can do with the disk it finds: succeed only when both inputs
\* are there; otherwise exit nonzero, leaving the output untouched ("fail")
\* or, when it got as far as opening it, a broken output ("partial").
MuxOutcomes(disk) ==
    IF disk[ScenePath] # Absent /\ disk[AudioPath] # Absent
    THEN {"notfound", "ok", "fail", "partial"}
    ELSE {"notfound", "fail"}

MuxDisk(disk, outcome, p) ==
    IF outcome = "ok" THEN [disk EXCEPT ![OutputPath] = Writer(p)]
    ELSE IF outcome = "partial" THEN [disk EXCEPT ![OutputPath] = "broken"]
    ELSE disk

\* Variant of RemoveRaises: a removal that fails on every path.
RemoveRaisesAlways(disk, f) ==
    TRUE

\* Variant of AfterRemove: the file is left in place.
AfterRemoveKept(disk, f) ==
    disk

\* os.remove raises FileNotFoundError on a path that does not exist.
RemoveRaises(disk, f) ==
    disk[f] = Absent

AfterRemove(disk, f) ==
    [disk EXCEPT ![f] = Absent]

-----------------------------------------------------------------------------
(* MathTutor.create_video: control *)

\* Variant of StepAfter: narration before rendering.
StepAfterNarrateFirst(step) ==
    CASE step = "generate" -> "narrate"
      [] step = "narrate" -> "render"
      [] step = "render" -> "mux"
      [] step = "mux" -> "rm_scene"
      [] step = "rm_scene" -> "rm_audio"
      [] step = "rm_audio" -> "return"

\* The step that follows a step that completed.
StepAfter(step) ==
    CASE step = "generate" -> "render"
      [] step = "render" -> "narrate"
      [] step = "narrate" -> "mux"
      [] step = "mux" -> "rm_scene"
      [] step = "rm_scene" -> "rm_audio"
      [] step = "rm_audio" -> "return"

\* Variant of ExceptTarget: the two removals outside the try block.
ExceptTargetNarrowTry(step) ==
    IF step \in {"rm_scene", "rm_audio"} THEN "crashed" ELSE "print"

\* Where control goes when a step raises: every step is inside the one try
\* block, so always the except clause, after which main prints.
ExceptTarget(step) ==
    "print"

\* Variant of DiskAfterCaught: intermediate files deleted on failure too.
DiskAfterCaughtCleanup(disk) ==
    [disk EXCEPT ![ScenePath] = Absent, ![AudioPath] = Absent]

\* The except clause prints and returns None; it touches no file.
DiskAfterCaught(disk) ==
    disk

Caught(p, step) ==
    /\ raisedAt' = [raisedAt EXCEPT ![p] = step]
    /\ fs' = DiskAfterCaught(fs)
    /\ pc' = [pc EXCEPT ![p] = ExceptTarget(step)]
    /\ result' = [result EXCEPT ![p] =
                    IF ExceptTarget(step) = "print" THEN NoneValue ELSE @]

Completed(p, step) ==
    /\ pc' = [pc EXCEPT ![p] = StepAfter(step)]
    /\ UNCHANGED <<raisedAt, result>>

Logged(p, step) ==
    log' = [log EXCEPT ![p] = Append(@, step)]

-----------------------------------------------------------------------------
(* main *)

\* Line 138: MathTutor().  The ValueError is not caught in main, so the run
\* ends there.
MainConstruct(p) ==
    /\ pc[p] = "start"
    /\ pc' = [pc EXCEPT ![p] = IF KeysMissing(env[p]) THEN "crashed" ELSE "input"]
    /\ UNCHANGED <<env, fs, fs0, asked, reply, steps, plays, renderOut, synth,
                   muxOut, muxIn, log, raisedAt, result>>

\* Lines 140-143: the question is read and create_video is entered.
MainInput(p) ==
    /\ pc[p] = "input"
    /\ asked' = [asked EXCEPT ![p] = TRUE]
    /\ pc' = [pc EXCEPT ![p] = "generate"]
    /\ UNCHANGED <<env, fs, fs0, reply, steps, plays, renderOut, synth,
                   muxOut, muxIn, log, raisedAt, result>>

\* Lines 145-148: the outcome is printed.
MainPrint(p) ==
    /\ pc[p] = "print"
    /\ pc' = [pc EXCEPT ![p] = "done"]
    /\ UNCHANGED <<env, fs, fs0, asked, reply, steps, plays, renderOut, synth,
                   muxOut, muxIn, log, raisedAt, result>>

-----------------------------------------------------------------------------
(* MathTutor.create_video, one action per blocking call *)

\* Line 105.
GenerateFrom(p, replies) ==
    /\ pc[p] = "generate"
    /\ Logged(p, "generate")
    /\ \E r \in replies :
          /\ reply' = [reply EXCEPT ![p] = r.kind]
          /\ IF GenerateRaises(r.kind)
             THEN /\ Caught(p, "generate")
                  /\ UNCHANGED steps
             ELSE /\ Completed(p, "generate")
                  /\ steps' = [steps EXCEPT ![p] = r.value]
                  /\ UNCHANGED fs
    /\ UNCHANGED <<env, fs0, asked, plays, renderOut, synth, muxOut, muxIn>>

Generate(p) ==
    GenerateFrom(p, Replies(MaxSteps))

GenerateConc(p) ==
    GenerateFrom(p, Replies(ConcMaxSteps))

\* Lines 108-110.  scene.render() is given no output path: whether the engine
\* leaves its movie at scene_path ("wrote") or somewhere else ("elsewhere") is
\* not decided by this source, so both are possible.  The engine can also
\* raise, at any step of construct or after it while writing the movie.
Render(p) ==
    /\ pc[p] = "render"
    /\ Logged(p, "render")
    /\ \/ \E out \in {"wrote", "elsewhere"} :
            /\ plays' = [plays EXCEPT ![p] = Construct(steps[p], 0)]
            /\ renderOut' = [renderOut EXCEPT ![p] = out]
            /\ fs' = IF out = "wrote"
                     THEN [fs EXCEPT ![ScenePath] = Writer(p)]
                     ELSE fs
            /\ Completed(p, "render")
       \/ \E failAt \in 1..(Len(steps[p]) + 1) :
            /\ plays' = [plays EXCEPT ![p] = Construct(steps[p], failAt)]
            /\ renderOut' = [renderOut EXCEPT ![p] = "raised"]
            /\ Caught(p, "render")
    /\ UNCHANGED <<env, fs0, asked, reply, steps, synth, muxOut, muxIn>>

\* Line 113, create_narration (lines 84-99): the text is joined, handed to
\* the synthesis call, and the audio saved at the fixed path.
Narrate(p) ==
    /\ pc[p] = "narrate"
    /\ Logged(p, "narrate")
    /\ IF NarrationKeyError(steps[p])
       THEN /\ Caught(p, "narrate")
            /\ UNCHANGED synth
       ELSE /\ synth' = [synth EXCEPT ![p] = Append(@, JoinNarration(steps[p]))]
            /\ \/ /\ fs' = [fs EXCEPT ![AudioPath] = Writer(p)]
                  /\ Completed(p, "narrate")
               \/ Caught(p, "narrate")
    /\ UNCHANGED <<env, fs0, asked, reply, steps, plays, renderOut, muxOut, muxIn>>

\* Lines 116-124.
Mux(p) ==
    /\ pc[p] = "mux"
    /\ Logged(p, "mux")
    /\ \E outcome \in MuxOutcomes(fs) :
          /\ muxOut' = [muxOut EXCEPT ![p] = outcome]
          /\ IF MuxRaises(outcome)
             THEN /\ Caught(p, "mux")
                  /\ UNCHANGED muxIn
             ELSE /\ muxIn' = [muxIn EXCEPT ![p] =
                                 [video |-> fs[ScenePath], audio |-> fs[AudioPath]]]
                  /\ fs' = MuxDisk(fs, outcome, p)
                  /\ Completed(p, "mux")
    /\ UNCHANGED <<env, fs0, asked, reply, steps, plays, renderOut, synth>>

Remove(p, step, f) ==
    /\ Logged(p, step)
    /\ IF RemoveRaises(fs, f)
       THEN Caught(p, step)
       ELSE /\ fs' = AfterRemove(fs, f)
            /\ Completed(p, step)
    /\ UNCHANGED <<env, fs0, asked, reply, steps, plays, renderOut, synth,
                   muxOut, muxIn>>

\* Line 127.
RemoveScene(p) ==
    /\ pc[p] = "rm_scene"
    /\ Remove(p, "rm_scene", ScenePath)

\* Line 128.
RemoveAudio(p) ==
    /\ pc[p] = "rm_audio"
    /\ Remove(p, "rm_audio", AudioPath)

\* Line 130.
ReturnPath(p) ==
    /\ pc[p] = "return"
    /\ Logged(p, "return")
    /\ result' = [result EXCEPT ![p] = OutputPath]
    /\ pc' = [pc EXCEPT ![p] = "print"]
    /\ UNCHANGED <<env, fs, fs0, asked, reply, steps, plays, renderOut, synth,
                   muxOut, muxIn, raisedAt>>

-----------------------------------------------------------------------------
(* Specifications *)

Disks ==
    [Files -> {Absent, "old"}]

EmptyDisk ==
    [f \in Files |-> Absent]

GoodEnvironment ==
    [OPENAI_API_KEY |-> "sk-key", ELEVENLABS_API_KEY |-> "sk-key"]

InitWith(procs, environments, disks) ==
    /\ pc = [p \in procs |-> "start"]
    /\ env \in [procs -> environments]
    /\ fs \in disks
    /\ fs0 = fs
    /\ asked = [p \in procs |-> FALSE]
    /\ reply = [p \in procs |-> "none"]
    /\ steps = [p \in procs |-> <<>>]
    /\ plays = [p \in procs |-> <<>>]
    /\ renderOut = [p \in procs |-> "none"]
    /\ synth = [p \in procs |-> <<>>]
    /\ muxOut = [p \in procs |-> "none"]
    /\ muxIn = [p \in procs |-> [video |-> "none", audio |-> "none"]]
    /\ log = [p \in procs |-> <<>>]
    /\ raisedAt = [p \in procs |-> "none"]
    /\ result = [p \in procs |-> "unset"]

Runs ==
    {1}

ConcRuns ==
    {1, 2}

\* One run of main in a directory holding any of the three files.
Init ==
    InitWith(Runs, Environments, Disks)

Next ==
    \E p \in Runs :
        \/ MainConstruct(p)
        \/ MainInput(p)
        \/ Generate(p)
        \/ Render(p)
        \/ Narrate(p)
        \/ Mux(p)
        \/ RemoveScene(p)
        \/ RemoveAudio(p)
        \/ ReturnPath(p)
        \/ MainPrint(p)

Spec ==
    Init /\ [][Next]_vars

\* Two runs of main started in the same, empty directory with both keys set.
InitConc ==
    InitWith(ConcRuns, {GoodEnvironment}, {EmptyDisk})

NextConc ==
    \E p \in ConcRuns :
        \/ MainConstruct(p)
        \/ MainInput(p)
        \/ GenerateConc(p)
        \/ Render(p)
        \/ Narrate(p)
        \/ Mux(p)
        \/ RemoveScene(p)
        \/ RemoveAudio(p)
        \/ ReturnPath(p)
        \/ MainPrint(p)

SpecConc ==
    InitConc /\ [][NextConc]_vars

-----------------------------------------------------------------------------
(* Properties *)

AllRuns ==
    DOMAIN pc

Count(kind, shown) ==
    Cardinality({i \in DOMAIN shown : shown[i][1] = kind})

IsPrefix(s, t) ==
    /\ Len(s) <= Len(t)
    /\ \A i \in 1..Len(s) : s[i] = t[i]

Returned(p) ==
    pc[p] \in {"print", "done"}

RenderCompleted(p) ==
    renderOut[p] \in {"wrote", "elsewhere"}

StepOrder ==
    <<"generate", "render", "narrate", "mux", "rm_scene", "rm_audio", "return">>

\* C1: for a sequence of N >= 1 steps that construct has shown to its end,
\* the animation holds exactly N equations, N explanations and N-1 arrows.
C1_ArrowsOneFewerThanSteps ==
    \A p \in AllRuns :
        (RenderCompleted(p) /\ Len(steps[p]) >= 1)
            => /\ Count("equation", plays[p]) = Len(steps[p])
               /\ Count("explanation", plays[p]) = Len(steps[p])
               /\ Count("arrow", plays[p]) = Len(steps[p]) - 1

\* C2: when create_video has returned the output path and the mux succeeded,
\* the directory holds the muxed output of this run and neither of the two
\* intermediate files.
C2_SuccessLeavesOnlyOutput ==
    \A p \in AllRuns :
        (result[p] = OutputPath /\ muxOut[p] = "ok")
            => /\ fs[OutputPath] = Writer(p)
               /\ fs[ScenePath] = Absent
               /\ fs[AudioPath] = Absent

C2_Witness ==
    /\ pc[1] = "done"
    /\ result[1] = OutputPath
    /\ muxOut[1] = "ok"
    /\ fs0[ScenePath] = "old"
    /\ fs0[AudioPath] = "old"

\* C3: when the language model's response is not valid JSON, create_video
\* returns None and generate is the only step of the run: nothing is
\* rendered, synthesized or muxed, and no file is written or deleted.
C3_InvalidJsonStopsRun ==
    \A p \in AllRuns :
        reply[p] = "text"
            => /\ Returned(p)
               /\ result[p] = NoneValue
               /\ log[p] = <<"generate">>
               /\ plays[p] = <<>>
               /\ renderOut[p] = "none"
               /\ synth[p] = <<>>
               /\ muxOut[p] = "none"
               /\ fs = fs0

C3_Witness ==
    /\ reply[1] = "text"
    /\ pc[1] = "done"
    /\ fs0[ScenePath] = "old"

\* C4: when either credential is unset or empty, the run never gets past the
\* constructor: the question is not read, no step of the pipeline runs, no
\* external call is made and no file is touched.
C4_MissingKeyStopsBeforePipeline ==
    \A p \in AllRuns :
        (\/ env[p].OPENAI_API_KEY \in {NoneValue, ""}
         \/ env[p].ELEVENLABS_API_KEY \in {NoneValue, ""})
            => /\ pc[p] \in {"start", "crashed"}
               /\ ~asked[p]
               /\ log[p] = <<>>
               /\ reply[p] = "none"
               /\ renderOut[p] = "none"
               /\ synth[p] = <<>>
               /\ muxOut[p] = "none"
               /\ result[p] = "unset"
               /\ fs = fs0

C4_Witness ==
    /\ pc[1] = "crashed"
    /\ env[1].OPENAI_API_KEY = "sk-key"
    /\ env[1].ELEVENLABS_API_KEY = ""

\* C5: once narrate has run on steps that all carry a narration, speech
\* synthesis was called exactly once, with the narrations in their original
\* order, one piece per step, separated by single spaces.
C5_NarrationJoinedInOrder ==
    \A p \in AllRuns :
        /\ Len(synth[p]) <= 1
        /\ (Len(log[p]) >= 3 /\ ~NarrationKeyError(steps[p]))
            => /\ Len(synth[p]) = 1
               /\ LET text == synth[p][1]
                      n == Len(steps[p])
                  IN  /\ Len(text) = IF n = 0 THEN 0 ELSE 2 * n - 1
                      /\ \A i \in 1..n : text[2 * i - 1] = steps[p][i].narration
                      /\ \A i \in 1..(n - 1) : text[2 * i] = " "

C5_Witness ==
    /\ Len(synth[1]) = 1
    /\ Len(steps[1]) = 3
    /\ steps[1][1].narration = "a"
    /\ steps[1][2].narration = "a"
    /\ steps[1][3].narration = "b"

\* C6: no exception escapes create_video: once entered it always returns,
\* with the output path or None, and None exactly when a step raised.
C6_ResultIsPathOrNone ==
    \A p \in AllRuns :
        /\ asked[p] => pc[p] # "crashed"
        /\ Returned(p)
            => /\ result[p] \in {OutputPath, NoneValue}
               /\ (result[p] = NoneValue) <=> (raisedAt[p] # "none")
        /\ ~Returned(p) => (result[p] = "unset" /\ raisedAt[p] = "none")

C6_Witness ==
    /\ pc[1] = "done"
    /\ raisedAt[1] = "rm_scene"
    /\ result[1] = NoneValue

C8_FixedStepOrder ==
    \A p \in AllRuns :
        /\ IsPrefix(log[p], StepOrder)
        /\ raisedAt[p] # "none"
            => /\ log[p] # <<>>
               /\ log[p][Len(log[p])] = raisedAt[p]
               /\ Returned(p)
        /\ (~Returned(p) /\ asked[p]) => pc[p] = StepOrder[Len(log[p]) + 1]
        /\ result[p] = OutputPath => log[p] = StepOrder

C8_Witness ==
    /\ pc[1] = "done"
    /\ log[1] = StepOrder

\* C9: two runs in one directory share the three fixed paths.  A run that
\* rendered its own scene file finds, at its mux, a scene or narration that
\* is not its own only because the other run wrote or deleted that path; and
\* a deletion of a run fails only because the other run deleted that file
\* first.  The witness is such a run: it muxed the other run's scene and
\* returned None although each of its own steps had succeeded.
C9_OnlyTheOtherRunClobbers ==
    \A p \in AllRuns :
        LET others == AllRuns \ {p}
            removedScene(q) == Len(log[q]) >= 5 /\ raisedAt[q] # "rm_scene"
            removedAudio(q) == Len(log[q]) >= 6 /\ raisedAt[q] # "rm_audio"
            muxed == muxOut[p] \in {"ok", "fail", "partial"}
        IN  /\ (muxed /\ renderOut[p] = "wrote")
                => \/ muxIn[p].video = Writer(p)
                   \/ \E q \in others :
                         \/ muxIn[p].video = Writer(q) /\ renderOut[q] = "wrote"
                         \/ muxIn[p].video = Absent /\ removedScene(q)
            /\ muxed
                => \/ muxIn[p].audio = Writer(p)
                   \/ \E q \in others :
                         \/ muxIn[p].audio = Writer(q) /\ Len(synth[q]) = 1
                         \/ muxIn[p].audio = Absent /\ removedAudio(q)
            /\ (raisedAt[p] = "rm_scene" /\ renderOut[p] = "wrote")
                => \E q \in others : removedScene(q)
            /\ raisedAt[p] = "rm_audio"
                => \E q \in others : removedAudio(q)

C9_Witness ==
    /\ renderOut[1] = "wrote"
    /\ muxOut[1] = "ok"
    /\ muxIn[1].video = Writer(2)
    /\ raisedAt[1] = "rm_scene"
    /\ result[1] = NoneValue
    /\ result[2] = OutputPath

\* C10: when generate, render or narrate raised, the run has deleted
\* nothing and has not written the output: every file that was there before
\* is still there, the output is as it was, and a scene file this run
\* rendered is still on disk.
C10_NoCleanupOnFailure ==
    \A p \in AllRuns :
        raisedAt[p] \in {"generate", "render", "narrate"}
            => /\ result[p] = NoneValue
               /\ \A i \in 1..Len(log[p]) : log[p][i] \notin {"mux", "rm_scene", "rm_audio"}
               /\ fs[OutputPath] = fs0[OutputPath]
               /\ \A f \in Files : fs0[f] # Absent => fs[f] # Absent
               /\ renderOut[p] = "wrote" => fs[ScenePath] = Writer(p)
               /\ fs[AudioPath] = fs0[AudioPath]

C10_Witness ==
    /\ pc[1] = "done"
    /\ raisedAt[1] = "narrate"
    /\ renderOut[1] = "wrote"
    /\ fs[ScenePath] = Writer(1)
    /\ fs0[ScenePath] = Absent

====
